---- MODULE Spec2Model ----
(***************************************************************************)
(* Model of priceholder-rs (src/src/lib.rs): a map from symbol to Price    *)
(* (latest value + senders of the callers waiting for the next value),     *)
(* the ThreadUnsafe store that owns the map, and the ThreadSafe wrapper    *)
(* that puts the store behind a Mutex.                                     *)
(*                                                                         *)
(* Option<X> is modelled as a sequence of length at most one:              *)
(* None == <<>>, Some(x) == <<x>>.                                         *)
(* A sync_channel(1) is a record: its buffer, whether the Receiver and     *)
(* the SyncSender are still alive, and history fields (reg, sent,          *)
(* abandoned, dropAt, ret, got) that no action reads in a guard.           *)
(***************************************************************************)
EXTENDS Integers, Sequences, FiniteSets, TLC

\* ---- bounds of the model ----
NumThreads == 3
NumKeys == 2
MaxVal == 2
MaxWrites == 2
MaxChans == 2

\* ---- program constant: sync_channel(1) ----
ChannelCapacity == 1

Threads == 1..NumThreads
Keys == 1..NumKeys
Values == 1..MaxVal

\* hashmap: ThreadUnsafe::hashmap, a function from the symbols present to Price
\* chan:    the channels created by price_receiver, in order of creation
\* lock:    the Mutex of ThreadSafe::inner, Unlocked or the thread holding it
\* pc, cur: where each thread is in its call, and the call's arguments and locals
\* seen:    what the latest get_price returned, until any other step is taken
\* wlog:    the put_price calls in order of their critical sections, with results
VARIABLES hashmap, chan, lock, pc, cur, seen, wlog

vars == <<hashmap, chan, lock, pc, cur, seen, wlog>>

None == <<>>
Some(x) == <<x>>
Unlocked == 0

\* ---- struct Price ----
Price_new_zero == [value |-> Some(0), waiters |-> None]

Price_new == [value |-> None, waiters |-> None]

Price_from(value) == [value |-> Some(value), waiters |-> None]

add_waiter_replace(price, waiter) == [price EXCEPT !.waiters = Some(<<waiter>>)]

add_waiter(price, waiter) ==
    IF price.waiters # None
    THEN [price EXCEPT !.waiters = Some(Append(price.waiters[1], waiter))]
    ELSE [price EXCEPT !.waiters = Some(<<waiter>>)]

set_value_keep(price, value) == price

\* update_price, line 143: self.value = Some(value)
set_value(price, value) == [price EXCEPT !.value = Some(value)]

clear_waiters_forgotten(price) == price

\* notify_waiters, line 152: self.waiters = None
clear_waiters(price) == [price EXCEPT !.waiters = None]

waiters_of_skip_first(price) ==
    IF price.waiters # None THEN Tail(price.waiters[1]) ELSE <<>>

\* the Vec the loop of notify_waiters iterates (empty when waiters is None)
waiters_of(price) == IF price.waiters # None THEN price.waiters[1] ELSE <<>>

\* ---- HashMap ----
contains_written(k) == k \in DOMAIN hashmap /\ hashmap[k].value # None

contains(k) == k \in DOMAIN hashmap

insert_only(k, price) == [x \in {k} |-> price]

insert(k, price) ==
    [x \in (DOMAIN hashmap) \cup {k} |-> IF x = k THEN price ELSE hashmap[x]]

\* ThreadUnsafe::get_price
get_price(k) == IF contains(k) THEN hashmap[k].value ELSE None

\* ---- channels ----
nchan == Len(chan)
nwrites == Len(wlog)

sync_channel_prefilled(k, call) ==
    [key |-> k, call |-> call,
     buf |-> IF contains(k) /\ hashmap[k].value # None
             THEN <<[val |-> hashmap[k].value[1], wid |-> 0]>> ELSE <<>>,
     rx |-> TRUE, tx |-> TRUE,
     reg |-> nwrites, sent |-> <<>>, abandoned |-> FALSE, dropAt |-> 0,
     ret |-> "pending", got |-> None]

sync_channel_sender_dropped(k, call) ==
    [key |-> k, call |-> call, buf |-> <<>>,
     rx |-> TRUE, tx |-> FALSE,
     reg |-> nwrites, sent |-> <<>>, abandoned |-> FALSE, dropAt |-> 0,
     ret |-> "pending", got |-> None]

\* sync_channel(1): an empty buffer, both halves alive
sync_channel(k, call) ==
    [key |-> k, call |-> call, buf |-> <<>>,
     rx |-> TRUE, tx |-> TRUE,
     reg |-> nwrites, sent |-> <<>>, abandoned |-> FALSE, dropAt |-> 0,
     ret |-> "pending", got |-> None]

\* SyncSender::send outcome on channel record ch
send_disconnected(ch) == ~ch.rx
send_would_block(ch) == ch.rx /\ Len(ch.buf) >= ChannelCapacity

send(ch, value, wid) ==
    [ch EXCEPT !.buf = Append(@, [val |-> value, wid |-> wid]),
               !.sent = Append(@, wid)]

drop_senders_leaked(chs, ws) == chs

drop_senders_all(chs, ws) == [c \in DOMAIN chs |-> [chs[c] EXCEPT !.tx = FALSE]]

\* dropping the Vec<SyncSender<T>> disconnects each of its channels
drop_senders(chs, ws) ==
    [c \in DOMAIN chs |->
        IF \E i \in DOMAIN ws : ws[i] = c THEN [chs[c] EXCEPT !.tx = FALSE] ELSE chs[c]]

\* ---- Mutex ----
mutex_lock_released_early(t) == Unlocked

\* ThreadSafe::put_price, line 99: the guard lives until put_price has returned
mutex_lock(t) == t

lock_after_registration_held(t) == t

\* ThreadSafe::next_price line 107: the guard is dropped at the end of the block
lock_after_registration(t) == Unlocked

NoCall == [op |-> "none", key |-> 0, val |-> None, i |-> 0, c |-> 0, wid |-> 0]

Init ==
    /\ hashmap = <<>>
    /\ chan = <<>>
    /\ lock = Unlocked
    /\ pc = [t \in Threads |-> "idle"]
    /\ cur = [t \in Threads |-> NoCall]
    /\ seen = None
    /\ wlog = <<>>

\* ThreadSafe::put_price up to the first send: lock, then ThreadUnsafe::put_price
\* (insert a new Price and return, or update_price's assignment)
PutPrice(t, k, v) ==
    /\ pc[t] = "idle"
    /\ lock = Unlocked
    /\ nwrites < MaxWrites
    /\ LET wid == nwrites + 1 IN
       IF contains(k)
       THEN /\ hashmap' = [hashmap EXCEPT ![k] = set_value(@, v)]
            /\ lock' = mutex_lock(t)
            /\ pc' = [pc EXCEPT ![t] = "notify"]
            /\ cur' = [cur EXCEPT ![t] = [op |-> "put", key |-> k, val |-> Some(v),
                                          i |-> 1, c |-> 0, wid |-> wid]]
            /\ wlog' = Append(wlog, [key |-> k, val |-> v, status |-> "running"])
       ELSE /\ hashmap' = insert(k, Price_from(v))
            /\ lock' = Unlocked
            /\ wlog' = Append(wlog, [key |-> k, val |-> v, status |-> "ok"])
            /\ UNCHANGED <<pc, cur>>
    /\ seen' = None
    /\ UNCHANGED chan

\* notify_waiters: one iteration whose send succeeds
NotifySend(t) ==
    /\ pc[t] = "notify"
    /\ LET ws == waiters_of(hashmap[cur[t].key])
           i == cur[t].i IN
       /\ i <= Len(ws)
       /\ ~send_disconnected(chan[ws[i]])
       /\ ~send_would_block(chan[ws[i]])
       /\ chan' = [chan EXCEPT ![ws[i]] = send(@, cur[t].val[1], cur[t].wid)]
       /\ cur' = [cur EXCEPT ![t].i = i + 1]
    /\ seen' = None
    /\ UNCHANGED <<hashmap, lock, pc, wlog>>

\* notify_waiters: waiter.send(value)? returns the SendError; the guard is dropped
NotifyFail(t) ==
    /\ pc[t] = "notify"
    /\ LET ws == waiters_of(hashmap[cur[t].key])
           i == cur[t].i IN
       /\ i <= Len(ws)
       /\ send_disconnected(chan[ws[i]])
    /\ lock' = Unlocked
    /\ pc' = [pc EXCEPT ![t] = "idle"]
    /\ wlog' = [wlog EXCEPT ![cur[t].wid].status = "err"]
    /\ cur' = [cur EXCEPT ![t] = NoCall]
    /\ seen' = None
    /\ UNCHANGED <<hashmap, chan>>

\* notify_waiters: the loop is over, self.waiters = None, Ok(())
NotifyDone(t) ==
    /\ pc[t] = "notify"
    /\ LET k == cur[t].key
           ws == waiters_of(hashmap[k]) IN
       /\ cur[t].i > Len(ws)
       /\ hashmap' = [hashmap EXCEPT ![k] = clear_waiters(@)]
       /\ chan' = drop_senders(chan, ws)
    /\ lock' = Unlocked
    /\ pc' = [pc EXCEPT ![t] = "idle"]
    /\ wlog' = [wlog EXCEPT ![cur[t].wid].status = "ok"]
    /\ cur' = [cur EXCEPT ![t] = NoCall]
    /\ seen' = None

\* ThreadSafe::get_price: lock, ThreadUnsafe::get_price, unlock;
\* seen holds what the call returned until the next step of any caller
GetPrice(t, k) ==
    /\ pc[t] = "idle"
    /\ lock = Unlocked
    /\ seen' = Some([key |-> k, val |-> get_price(k)])
    /\ UNCHANGED <<hashmap, chan, lock, pc, cur, wlog>>

\* ThreadUnsafe::price_receiver under the lock; call says who holds the Receiver
Register(t, k, call, next) ==
    /\ pc[t] = "idle"
    /\ lock = Unlocked
    /\ nchan < MaxChans
    /\ LET c == nchan + 1 IN
       /\ chan' = Append(chan, sync_channel(k, call))
       /\ hashmap' = IF contains(k)
                     THEN [hashmap EXCEPT ![k] = add_waiter(@, c)]
                     ELSE insert(k, add_waiter(Price_new, c))
       /\ cur' = [cur EXCEPT ![t] = [op |-> call, key |-> k, val |-> None,
                                     i |-> 0, c |-> c, wid |-> 0]]
    /\ lock' = lock_after_registration(t)
    /\ pc' = [pc EXCEPT ![t] = next]
    /\ seen' = None
    /\ UNCHANGED wlog

\* ThreadSafe::next_price, line 107
NextPrice(t, k) == Register(t, k, "next_price", "recv")

\* a caller inside the crate takes the Receiver from price_receiver and keeps it
PriceReceiver(t, k) == Register(t, k, "price_receiver", "hold")

\* ... and later calls recv on it
HeldRecv(t) ==
    /\ pc[t] = "hold"
    /\ pc' = [pc EXCEPT ![t] = "recv"]
    /\ seen' = None
    /\ UNCHANGED <<hashmap, chan, lock, cur, wlog>>

\* ... or drops it without receiving
Abandon(t) ==
    /\ pc[t] = "hold"
    /\ chan' = [chan EXCEPT ![cur[t].c].rx = FALSE, ![cur[t].c].abandoned = TRUE,
                            ![cur[t].c].dropAt = nwrites]
    /\ pc' = [pc EXCEPT ![t] = "idle"]
    /\ cur' = [cur EXCEPT ![t] = NoCall]
    /\ seen' = None
    /\ UNCHANGED <<hashmap, lock, wlog>>

\* Receiver::recv returns once a value is buffered or the sender is gone
recv_ready(ch) == ch.buf # <<>> \/ ~ch.tx

\* Receiver::recv: Ok(the buffered value), else Err(RecvError)
recv(ch) ==
    IF ch.buf # <<>>
    THEN [ch EXCEPT !.buf = Tail(@), !.ret = "value", !.got = Some(Head(ch.buf))]
    ELSE [ch EXCEPT !.ret = "closed"]

Recv(t) ==
    /\ pc[t] = "recv"
    /\ recv_ready(chan[cur[t].c])
    /\ chan' = [chan EXCEPT ![cur[t].c] = recv(@)]
    /\ pc' = [pc EXCEPT ![t] = "ret"]
    /\ seen' = None
    /\ UNCHANGED <<hashmap, lock, cur, wlog>>

\* the call returns: rx goes out of scope
DropRx(t) ==
    /\ pc[t] = "ret"
    /\ chan' = [chan EXCEPT ![cur[t].c].rx = FALSE]
    /\ pc' = [pc EXCEPT ![t] = "idle"]
    /\ cur' = [cur EXCEPT ![t] = NoCall]
    /\ seen' = None
    /\ UNCHANGED <<hashmap, lock, wlog>>

\* tests: hashmap.get_mut("symbol").unwrap().waiters = None, under the lock
ClearWaiters(k) ==
    /\ lock = Unlocked
    /\ contains(k)
    /\ hashmap[k].waiters # None
    /\ hashmap' = [hashmap EXCEPT ![k].waiters = None]
    /\ chan' = drop_senders(chan, waiters_of(hashmap[k]))
    /\ seen' = None
    /\ UNCHANGED <<lock, pc, cur, wlog>>

Next ==
    \/ \E t \in Threads, k \in Keys, v \in Values : PutPrice(t, k, v)
    \/ \E t \in Threads : NotifySend(t)
    \/ \E t \in Threads : NotifyFail(t)
    \/ \E t \in Threads : NotifyDone(t)
    \/ \E t \in Threads, k \in Keys : GetPrice(t, k)
    \/ \E t \in Threads, k \in Keys : NextPrice(t, k)
    \/ \E t \in Threads, k \in Keys : PriceReceiver(t, k)
    \/ \E t \in Threads : HeldRecv(t)
    \/ \E t \in Threads : Abandon(t)
    \/ \E t \in Threads : Recv(t)
    \/ \E t \in Threads : DropRx(t)

Spec == Init /\ [][Next]_vars

\* the tests' reset of a Price's waiters, among registrations, writes and receives
NextReset ==
    \/ \E k \in Keys : ClearWaiters(k)
    \/ \E t \in Threads, k \in Keys, v \in Values : PutPrice(t, k, v)
    \/ \E t \in Threads : NotifySend(t)
    \/ \E t \in Threads : NotifyDone(t)
    \/ \E t \in Threads, k \in Keys : NextPrice(t, k)
    \/ \E t \in Threads, k \in Keys : PriceReceiver(t, k)
    \/ \E t \in Threads : HeldRecv(t)
    \/ \E t \in Threads : Recv(t)
    \/ \E t \in Threads : DropRx(t)

SpecReset == Init /\ [][NextReset]_vars

\* ThreadSafe's put_price and next_price only: no Receiver is ever dropped unreceived
NextWaitWrite ==
    \/ \E t \in Threads, k \in Keys, v \in Values : PutPrice(t, k, v)
    \/ \E t \in Threads : NotifySend(t)
    \/ \E t \in Threads : NotifyDone(t)
    \/ \E t \in Threads, k \in Keys : NextPrice(t, k)
    \/ \E t \in Threads : Recv(t)
    \/ \E t \in Threads : DropRx(t)

\* the scheduler keeps running a thread that is inside a call; nothing obliges
\* a caller to start a call
Fairness ==
    \A t \in Threads :
        /\ WF_vars(NotifySend(t))
        /\ WF_vars(NotifyDone(t))
        /\ WF_vars(Recv(t))
        /\ WF_vars(DropRx(t))

FairSpec == Init /\ [][NextWaitWrite]_vars /\ Fairness

\* ThreadUnsafe used directly by its one owner through put_price, get_price and
\* next_price: the owner is the only caller, so the lock is never contended
Owner == 1

NextCore ==
    \/ \E k \in Keys, v \in Values : PutPrice(Owner, k, v)
    \/ NotifyDone(Owner)
    \/ \E k \in Keys : GetPrice(Owner, k)
    \/ \E k \in Keys : NextPrice(Owner, k)

SpecCore == Init /\ [][NextCore]_vars

TypeOK ==
    /\ lock \in {Unlocked} \cup Threads
    /\ \A t \in Threads : pc[t] \in {"idle", "notify", "hold", "recv", "ret"}
    /\ \A c \in 1..nchan : Len(chan[c].buf) <= ChannelCapacity

\* ---- history read off the write log and the channel records ----
Chans == 1..nchan
Writes == 1..nwrites
Returned(w) == wlog[w].status \in {"ok", "err"}

\* channel c was registered on the key of write w before w's critical section
\* began and no earlier write had sent to it
RegisteredAt(c, w) ==
    /\ chan[c].key = wlog[w].key
    /\ chan[c].reg < w
    /\ \A i \in DOMAIN chan[c].sent : chan[c].sent[i] >= w

\* value of the most recent put_price on key k
LastWritten(k) ==
    LET ws == {w \in Writes : wlog[w].key = k} IN
    IF ws = {} THEN None
    ELSE Some(wlog[CHOOSE w \in ws : \A x \in ws : x <= w].val)

\* c is no longer in the waiters of its key
Cleared(c) == \A i \in DOMAIN waiters_of(hashmap[chan[c].key]) :
                  waiters_of(hashmap[chan[c].key])[i] # c

Blocked(t) == pc[t] = "recv" /\ ~recv_ready(chan[cur[t].c])

\* C1: a wait only ever returns (or has buffered) a value sent by a write on its
\* key whose critical section began after the wait was registered, and a caller
\* in recv can return only once such a write has sent to it.
C1_NextValueOnly ==
    /\ \A c \in Chans :
        /\ \A i \in DOMAIN chan[c].buf : chan[c].buf[i].wid > chan[c].reg
        /\ chan[c].ret = "value" =>
              LET g == chan[c].got[1] IN
              /\ g.wid \in Writes
              /\ g.wid > chan[c].reg
              /\ wlog[g.wid].key = chan[c].key
              /\ wlog[g.wid].val = g.val
    /\ \A t \in Threads :
        pc[t] = "recv" /\ recv_ready(chan[cur[t].c]) =>
            /\ chan[cur[t].c].buf # <<>>
            /\ Head(chan[cur[t].c].buf).wid > chan[cur[t].c].reg

\* a wait registered after write(k,v) returned the equal value of a later write
C1_Witness ==
    \E c \in Chans :
        /\ chan[c].ret = "value"
        /\ chan[c].reg >= 1
        /\ wlog[chan[c].reg].key = chan[c].key
        /\ wlog[chan[c].reg].val = chan[c].got[1].val
        /\ chan[c].got[1].wid > chan[c].reg

\* C2: when a write has returned and none of the waiters registered at that
\* write is abandoned, the write succeeded, it sent its value exactly once to
\* each of them, and each of them that returned returned that value.
C2_Broadcast ==
    \A w \in Writes :
        (Returned(w) /\ \A c \in Chans : RegisteredAt(c, w) => ~chan[c].abandoned) =>
            /\ wlog[w].status = "ok"
            /\ \A c \in Chans : RegisteredAt(c, w) =>
                  /\ chan[c].sent = <<w>>
                  /\ chan[c].ret # "closed"
                  /\ chan[c].ret = "value" =>
                        chan[c].got = Some([val |-> wlog[w].val, wid |-> w])

\* one write, two next_price calls registered before it, both returned its value
C2_Witness ==
    \E w \in Writes : \E c1, c2 \in Chans :
        /\ c1 # c2
        /\ wlog[w].status = "ok"
        /\ \A c \in {c1, c2} :
              /\ RegisteredAt(c, w)
              /\ chan[c].call = "next_price"
              /\ chan[c].got = Some([val |-> wlog[w].val, wid |-> w])

\* C3: a caller in the receive phase never holds the lock; the lock is only
\* ever held by a put_price in its notify loop, so with no write in progress
\* the lock is free for a reader or writer whatever the number of blocked waiters.
C3_WaiterHoldsNoLock ==
    /\ \A t \in Threads : pc[t] \in {"recv", "ret", "hold"} => lock # t
    /\ lock # Unlocked => pc[lock] = "notify"
    /\ (\A t \in Threads : pc[t] # "notify") => lock = Unlocked

\* a waiter is blocked in recv while another caller is free to take the lock
C3_Witness ==
    \E t, u \in Threads :
        /\ Blocked(t)
        /\ chan[cur[t].c].call = "next_price"
        /\ pc[u] = "idle"
        /\ lock = Unlocked
        /\ \A x \in Threads : pc[x] # "notify"

\* C4 (as claimed): once a write has returned, every waiter registered at that
\* write that is not abandoned has been sent the write's value.
C4_AllLiveWaitersNotified ==
    \A w \in Writes : Returned(w) =>
        \A c \in Chans :
            RegisteredAt(c, w) /\ ~chan[c].abandoned =>
                \E i \in DOMAIN chan[c].sent : chan[c].sent[i] = w

\* C5 (as claimed): when a put_price on an existing key returns, Ok or Err,
\* the waiters of that key are None.
C5_WaitersEmptyAfterWrite ==
    [][\A t \in Threads :
          pc[t] = "notify" /\ pc'[t] = "idle" =>
              hashmap'[cur[t].key].waiters = None]_vars

\* C6 (as claimed): no channel is sent more than one value, and outside a
\* write's critical section no waiters list holds a sender that was already
\* sent a value.
C6_OneShot ==
    /\ \A c \in Chans : Len(chan[c].sent) <= 1
    /\ lock = Unlocked =>
          \A k \in DOMAIN hashmap : \A i \in DOMAIN waiters_of(hashmap[k]) :
              chan[waiters_of(hashmap[k])[i]].sent = <<>>

\* C7 (as claimed): a put_price that holds the lock is never suspended in a send.
C7_WriteNeverSuspends ==
    \A t \in Threads :
        pc[t] = "notify" /\ cur[t].i <= Len(waiters_of(hashmap[cur[t].key])) =>
            ~send_would_block(chan[waiters_of(hashmap[cur[t].key])[cur[t].i]])

\* C8: a next_price call registered before the critical section of a write
\* that returned Ok, and not served by an earlier write, returns that write's value.
C8_Owed(c, w) ==
    /\ c \in Chans
    /\ w \in Writes
    /\ chan[c].call = "next_price"
    /\ wlog[w].status = "ok"
    /\ RegisteredAt(c, w)

C8_Paid(c, w) ==
    /\ c \in Chans
    /\ w \in Writes
    /\ chan[c].got = Some([val |-> wlog[w].val, wid |-> w])

C8_NoLostWakeup ==
    \A c \in 1..MaxChans : \A w \in 1..MaxWrites : C8_Owed(c, w) ~> C8_Paid(c, w)

\* a waiter registered before a successful write to an existing key got its value
C8_Witness ==
    \E c \in Chans : \E w \in Writes :
        /\ C8_Owed(c, w)
        /\ C8_Paid(c, w)
        /\ chan[c].reg >= 1

\* C9: a registered wait whose entry was removed from the waiters without any
\* value sent to it is not blocked: its recv returns RecvError, whether the
\* Receiver is that of ThreadSafe::next_price or one taken from price_receiver.
C9_ClearedWaitGetsClosed ==
    \A c \in Chans :
        Cleared(c) /\ chan[c].sent = <<>> =>
            /\ recv_ready(chan[c])
            /\ recv(chan[c]).ret = "closed"
            /\ chan[c].ret \in {"pending", "closed"}
            /\ \A t \in Threads : cur[t].c = c /\ pc[t] = "ret" => chan[c].ret = "closed"

\* both kinds of caller have returned RecvError after a reset
C9_Witness ==
    \E c1, c2 \in Chans :
        /\ chan[c1].call = "next_price"
        /\ chan[c2].call = "price_receiver"
        /\ \A c \in {c1, c2} :
              chan[c].ret = "closed" /\ chan[c].sent = <<>> /\ ~chan[c].abandoned

\* C10: get_price returns the value of the most recent put_price on the key.
C10_ReadAfterWrite ==
    seen # None => seen[1].val = LastWritten(seen[1].key)

\* write(k,v1) then write(k,v2), v1 # v2, then a read of k that returned v2
C10_Witness ==
    /\ seen # None
    /\ \E w1, w2 \in Writes :
          /\ w1 < w2
          /\ wlog[w1].key = seen[1].key
          /\ wlog[w2].key = seen[1].key
          /\ wlog[w1].val # wlog[w2].val
          /\ seen[1].val = Some(wlog[w2].val)

\* the put_price calls on key k, in the order of their critical sections
WritesOn(k) == {w \in Writes : wlog[w].key = k}
ChansOn(k) == {c \in Chans : chan[c].key = k}

\* C11: get_price of a key that no put_price has written returns None, also
\* when the key has a Price that a registration created.
C11_UnwrittenReadsAbsent ==
    seen # None /\ WritesOn(seen[1].key) = {} => seen[1].val = None

\* a read of a key that has only waiters, while another key has been written
C11_Witness ==
    /\ seen # None
    /\ WritesOn(seen[1].key) = {}
    /\ contains(seen[1].key)
    /\ hashmap[seen[1].key].waiters # None
    /\ seen[1].val = None
    /\ nwrites >= 1

\* the step is part of a put_price on key k or of a registration on key k
StepOfWriteOrRegistration(k) ==
    \/ nwrites + 1 = Len(wlog') /\ wlog'[nwrites + 1].key = k
    \/ \E t \in Threads : pc[t] = "notify" /\ cur[t].key = k /\ cur'[t] # cur[t]
    \/ nchan + 1 = Len(chan') /\ chan'[nchan + 1].key = k

\* C12: a step of a put_price on k (also one that returns Err) or of a
\* registration on k leaves the Price of every other key, present or not, and
\* every channel registered on another key as they were.
C12_IndependentKeys ==
    [][\A k \in Keys : StepOfWriteOrRegistration(k) =>
          \A k2 \in Keys \ {k} :
              /\ (k2 \in DOMAIN hashmap) = (k2 \in DOMAIN hashmap')
              /\ k2 \in DOMAIN hashmap => hashmap'[k2] = hashmap[k2]
              /\ \A c \in Chans : chan[c].key = k2 => chan'[c] = chan[c]]_vars

\* a write on one key returned Err while another key holds a value and a waiter
C12_Witness ==
    \E w \in Writes : \E k2 \in Keys \ {wlog[w].key} :
        /\ wlog[w].status = "err"
        /\ contains(k2)
        /\ hashmap[k2].value # None
        /\ hashmap[k2].waiters # None
        /\ \A c \in ChansOn(k2) : chan[c].sent = <<>>

\* value of key k after the first n put_price calls
ValueAsOf(k, n) ==
    LET ws == {w \in WritesOn(k) : w <= n} IN
    IF ws = {} THEN None
    ELSE Some(wlog[CHOOSE w \in ws : \A x \in ws : x <= w].val)

\* C13 (as claimed): while a next_price on k is pending, no write having sent
\* to it, every get_price(k) returns the value k had when the wait was registered.
C13_ReadDuringPendingWait ==
    seen # None =>
        \A c \in ChansOn(seen[1].key) :
            chan[c].call = "next_price" /\ chan[c].sent = <<>> =>
                seen[1].val = ValueAsOf(seen[1].key, chan[c].reg)

\* the whole history is cycles on one key: the p-th registration came after
\* p - 1 writes, the p-th write wrote p, and no Receiver was dropped unreceived
RendezvousCycles ==
    /\ nchan >= 1
    /\ nwrites <= nchan
    /\ \A c \in Chans :
          /\ chan[c].key = chan[1].key
          /\ chan[c].reg = c - 1
          /\ ~chan[c].abandoned
    /\ \A w \in Writes : wlog[w].key = chan[1].key /\ wlog[w].val = w

\* C14: over cycles of one registration then write(k, p), the p-th write
\* returns Ok and is the only write that sends to the p-th waiter, which
\* returns p if it returns.
C14_SequentialRendezvous ==
    RendezvousCycles =>
        \A p \in Writes :
            Returned(p) =>
                /\ wlog[p].status = "ok"
                /\ chan[p].sent = <<p>>
                /\ chan[p].ret # "closed"
                /\ chan[p].ret = "value" => chan[p].got = Some([val |-> p, wid |-> p])
                /\ \A c \in Chans : c > p => \A i \in DOMAIN chan[c].sent : chan[c].sent[i] > p

\* two cycles done: the first next_price returned 1, the second returned 2
C14_Witness ==
    /\ RendezvousCycles
    /\ nchan >= 2
    /\ nwrites >= 2
    /\ \A p \in 1..2 :
          /\ chan[p].call = "next_price"
          /\ chan[p].got = Some([val |-> p, wid |-> p])

\* the waiters registered at write w on its key
RegisteredSet(w) == {c \in Chans : RegisteredAt(c, w)}

\* C15: a key with registrations and no put_price has a Price with value None
\* whose waiters are those registrations (the single one, when there is one);
\* the first put_price on such a key whose only waiter is a next_price call
\* returns Ok and sends the value to that waiter.
C15_FirstWriteNotifiesWaiter ==
    \A k \in Keys :
        /\ WritesOn(k) = {} /\ ChansOn(k) = {} => k \notin DOMAIN hashmap
        /\ WritesOn(k) = {} /\ ChansOn(k) # {} =>
              /\ k \in DOMAIN hashmap
              /\ hashmap[k].value = None
              /\ \A c \in ChansOn(k) :
                    ChansOn(k) = {c} => hashmap[k].waiters = Some(<<c>>)
        /\ \A w \in WritesOn(k) : \A c \in ChansOn(k) :
              /\ \A x \in WritesOn(k) : w <= x
              /\ Returned(w)
              /\ RegisteredSet(w) = {c}
              /\ chan[c].call = "next_price"
              => /\ wlog[w].status = "ok"
                 /\ chan[c].sent = <<w>>
                 /\ chan[c].ret = "value" =>
                       chan[c].got = Some([val |-> wlog[w].val, wid |-> w])

\* the first write ever on a key served the next_price that had created its Price
C15_Witness ==
    \E w \in Writes : \E c \in Chans :
        /\ \A x \in WritesOn(wlog[w].key) : w <= x
        /\ RegisteredSet(w) = {c}
        /\ chan[c].call = "next_price"
        /\ \A d \in ChansOn(chan[c].key) : c <= d
        /\ chan[c].got = Some([val |-> wlog[w].val, wid |-> w])

\* C16: at most one caller is inside a critical section that spans steps (the
\* notify loop of put_price) and it holds the lock; every step that changes
\* the map either starts from the free lock, which it takes for a critical
\* section of one step, or is a step of the caller holding the lock.
C16_MutualExclusion ==
    [][/\ Cardinality({t \in Threads : pc'[t] = "notify"}) <= 1
       /\ \A t \in Threads : pc'[t] = "notify" => lock' = t
       /\ hashmap' # hashmap =>
             \/ lock = Unlocked
             \/ \E t \in Threads : lock = t /\ pc[t] = "notify" /\ cur'[t] # cur[t]]_vars

\* a put_price holds the lock over a Price with waiters while a caller is idle
C16_Witness ==
    \E t, u \in Threads :
        /\ t # u
        /\ pc[t] = "notify"
        /\ lock = t
        /\ hashmap[cur[t].key].waiters # None
        /\ pc[u] = "idle"

\* C17: a step in which get_price returns leaves the map, the channels and the
\* lock as they were, and no step removes a key from the map.
C17_ReadChangesNothing ==
    [][/\ seen' # None => hashmap' = hashmap /\ chan' = chan /\ lock' = lock
       /\ \A k \in DOMAIN hashmap : k \in DOMAIN hashmap']_vars

\* a read of an unknown key returned None and created no Price, next to a known key
C17_Witness ==
    /\ seen # None
    /\ seen[1].key \notin DOMAIN hashmap
    /\ seen[1].val = None
    /\ DOMAIN hashmap # {}

\* C18: the value is stored before any send is attempted, and a get_price
\* after a put_price that returned Err returns the value of that put_price.
C18_FailedWriteStillStores ==
    /\ \A t \in Threads : pc[t] = "notify" => hashmap[cur[t].key].value = cur[t].val
    /\ seen # None =>
          \A w \in WritesOn(seen[1].key) :
              (\A x \in WritesOn(seen[1].key) : x <= w) /\ wlog[w].status = "err" =>
                  seen[1].val = Some(wlog[w].val)

\* a write that returned Err changed what the next read returned
C18_Witness ==
    /\ seen # None
    /\ \E w \in WritesOn(seen[1].key) :
          /\ \A x \in WritesOn(seen[1].key) : x <= w
          /\ wlog[w].status = "err"
          /\ seen[1].val = Some(wlog[w].val)
          /\ ValueAsOf(seen[1].key, w - 1) # Some(wlog[w].val)

\* c was in the waiters of write w's key when w's critical section began:
\* registered before w and not cleared by an earlier successful write
InWaitersAt(c, w) ==
    /\ chan[c].key = wlog[w].key
    /\ chan[c].reg < w
    /\ \A x \in WritesOn(wlog[w].key) :
          chan[c].reg < x /\ x < w => wlog[x].status # "ok"

\* C19 (as claimed): a put_price returns Err exactly when, as its critical
\* section begins, the waiters of its key hold a sender whose Receiver was
\* dropped unreceived.
C19_ErrIffAbandonedAtWrite ==
    \A w \in Writes : Returned(w) =>
        (wlog[w].status = "err" <=>
            \E c \in Chans :
                InWaitersAt(c, w) /\ chan[c].abandoned /\ chan[c].dropAt < w)

\* C19 (amended): a put_price returns Err exactly when the waiters of its key
\* hold a sender whose Receiver was dropped unreceived before that put_price
\* sent to it, be it before the critical section or in the course of it.
C19_ErrIffDroppedBeforeSend ==
    \A w \in Writes : Returned(w) =>
        (wlog[w].status = "err" <=>
            \E c \in Chans :
                /\ InWaitersAt(c, w)
                /\ chan[c].abandoned
                /\ chan[c].dropAt <= w
                /\ \A i \in DOMAIN chan[c].sent : chan[c].sent[i] # w)

\* a write returned Err on a Receiver dropped only after its critical section began
C19_Witness ==
    \E w \in Writes :
        /\ wlog[w].status = "err"
        /\ \E c \in Chans :
              InWaitersAt(c, w) /\ chan[c].abandoned /\ chan[c].dropAt = w
        /\ \A c \in Chans :
              InWaitersAt(c, w) /\ chan[c].abandoned => chan[c].dropAt >= w

\* C20: in the store used by its single owner, a next_price never returns:
\* the owner stays in recv on an empty channel whose sender is alive in the
\* map, no recv is enabled, and no channel is ever sent a value or closed.
C20_CoreNextPriceNeverReturns ==
    /\ \A c \in Chans :
          /\ chan[c].ret = "pending"
          /\ chan[c].sent = <<>>
          /\ chan[c].buf = <<>>
          /\ chan[c].tx
    /\ pc[Owner] = "recv" =>
          /\ ~recv_ready(chan[cur[Owner].c])
          /\ ~ENABLED Recv(Owner)
          /\ \E i \in DOMAIN waiters_of(hashmap[cur[Owner].key]) :
                waiters_of(hashmap[cur[Owner].key])[i] = cur[Owner].c
          /\ \A t \in Threads : pc[t] \notin {"notify", "ret"}

\* the owner is blocked in next_price on a key it had written before
C20_Witness ==
    /\ pc[Owner] = "recv"
    /\ hashmap[cur[Owner].key].value # None
    /\ ~recv_ready(chan[cur[Owner].c])
====
